---- MODULE Spec2Model ----
(***************************************************************************)
(* Model of circus/controller.py: the control-plane dispatch engine of the *)
(* circus process supervisor (BaseController and Controller).              *)
(*                                                                         *)
(* Every method of the controller is a pure operator on the record `s` of  *)
(* the state a handler can touch; a raised exception is the field s.exc,   *)
(* which every caller propagates the way Python does.  One action models   *)
(* one callback of the event loop (start, stop, handle_message, the timer  *)
(* tick), run to completion: the loop is single threaded.                  *)
(* The interpreter is Python 2 (`unicode` at line 155 is a builtin).       *)
(***************************************************************************)
EXTENDS Integers, Sequences, FiniteSets, TLC

\* ---------------------------------------------------------------- bounds
\* number of frames whose responses are followed across callbacks
MaxJobs == 3

\* ------------------------------------------------------------ value sets
None == "None"
Cids == {"c1", "c2"}
CidOpt == Cids \cup {None}

\* the command field of a decoded document: a string, absent (json_msg.get
\* gives None) or a value that is not a string (a number)
Absent == "<absent>"
NonString == "<number>"
CmdStrings == {"quit", "QuIt", "list", "bogus"}
CmdValues == CmdStrings \cup {Absent, NonString}

\* the msg_type field: "cast", another string, or absent
MsgTypes == {"cast", "call", Absent}

\* messages carried by a MessageError or an OSError (str(e))
ErrMsgs == {"e1", "e2"}

\* what validate/execute of a registered command do when called
Outcomes == {"ret_none", "ret_dict", "ret_list", "ret_other",
             "validate_MessageError", "validate_OSError", "validate_Exception",
             "execute_MessageError", "execute_OSError", "execute_Exception"}

\* one choice of the environment for one callback: the command's behaviour,
\* whether stream.send and stream.flush/close fail
Envs == [outcome : Outcomes, emsg : ErrMsgs, send_ok : BOOLEAN,
         flush_ok : BOOLEAN, close_ok : BOOLEAN]

IsRet(outcome) == outcome \in {"ret_none", "ret_dict", "ret_list", "ret_other"}

NoEnv == [outcome |-> "ret_none", emsg |-> "e1", send_ok |-> TRUE,
          flush_ok |-> TRUE, close_ok |-> TRUE]

\* str.lower() on the command names of the model
lower(name) ==
    CASE name = "QuIt" -> "quit"
      [] OTHER -> name

\* the registry returned by get_commands(), keyed by lower-case name
commands == {"quit", "list"}

\* --------------------------------------------------------------- frames
\* body: empty, text that json.loads rejects, a document that is not a
\* mapping, or a mapping; padded: the body has surrounding whitespace
RawMsgs ==
    [body : {"empty", "invalid"}, command : {Absent},
     msg_type : {Absent}, padded : BOOLEAN]
    \cup
    [body : {"nonmap"}, command : {Absent}, msg_type : {Absent},
     padded : {FALSE}]
    \cup
    [body : {"map"}, command : CmdValues, msg_type : MsgTypes,
     padded : {FALSE}]

\* bytes.strip(): surrounding whitespace is removed, the text is kept
strip(msg) == [msg EXCEPT !.padded = FALSE]

\* `not msg`: the stripped body has length zero
IsEmpty(msg) == msg.body = "empty" /\ ~msg.padded

\* ------------------------------------------------------------ responses
NoTb == "None"
NoResp == [status |-> "", reason |-> <<>>, tb |-> NoTb, errno |-> "",
           payload |-> ""]

\* circus.commands.ok(): the ok envelope, a mapping merged into it
ok(props) == [status |-> "ok", reason |-> <<>>, tb |-> NoTb, errno |-> "",
              payload |-> props]

\* circus.commands.error()
error(reason, tb, errno) ==
    [status |-> "error", reason |-> reason, tb |-> tb, errno |-> errno,
     payload |-> "none"]

\* the plain-text reply of handle_message
EmptyCommandText ==
    [status |-> "text", reason |-> <<"error: empty command">>, tb |-> NoTb,
     errno |-> "", payload |-> "none"]

\* ------------------------------------------------------- events of a run
\* one call the controller makes on a collaborator: good is FALSE when the
\* call raised, info is what it raised or returned
Ev(op, cid, seq, resp, good, info) ==
    [op |-> op, cid |-> cid, seq |-> seq, resp |-> resp, good |-> good,
     info |-> info]

Call(op) == Ev(op, None, 0, NoResp, TRUE, <<>>)

Failed(op, info) == Ev(op, None, 0, NoResp, FALSE, info)

Log(s, e) == [s EXCEPT !.trace = Append(@, e)]

Raise(s, exctype) == [s EXCEPT !.exc = exctype]

Raised(s) == s.exc # "none"

\* --------------------------------------------------- BaseController.start
\* initialize() creates the socket and binds it; a failing bind raises out
\* of start() before the stream, the timer and the started flag are set
start(s, bind_ok) ==
    IF ~bind_ok
    THEN Raise(Log([s EXCEPT !.ctrl_socket = "open"],
                   Failed("initialize", <<"ZMQError">>)), "ZMQError")
    ELSE LET a == Log([s EXCEPT !.ctrl_socket = "open", !.stream = "open"],
                      Call("initialize"))
             b == Log([a EXCEPT !.timer = "running"], Call("caller.start"))
         IN  [b EXCEPT !.started = TRUE]

\* ---------------------------------------------------- BaseController.stop
\* stream.flush() and stream.close() raise on a closed stream or when the
\* transport fails; both are inside the try block
teardown(s, env) ==
    IF s.stream # "open" \/ ~env.flush_ok
    THEN Log(s, Failed("flush", <<"ZMQError">>))
    ELSE LET f == Log(s, Call("flush")) IN
         IF ~env.close_ok
         THEN Log(f, Failed("close", <<"ZMQError">>))
         ELSE Log([f EXCEPT !.stream = "closed"], Call("close"))

\* mutant: the teardown is not guarded by `if self.started`
stop_unguarded(s, env) ==
    LET a == Log([s EXCEPT !.timer = "stopped"], Call("caller.stop"))
        b == teardown(a, env)
        t == IF b.ctrl_socket = "open" /\ ~env.sock_ok
             THEN Raise(Log(b, Failed("ctrl_socket.close", <<"ZMQError">>)),
                        "ZMQError")
             ELSE Log([b EXCEPT !.ctrl_socket = "closed"],
                      Call("ctrl_socket.close"))
    IN  IF Raised(t) THEN t ELSE Log(t, Call("sys_hdl.stop"))

\* ctrl_socket.close() is outside the try block: closing an open socket
\* can raise ZMQError, closing a closed one does nothing
stop(s, env) ==
    LET t == IF s.started
             THEN LET a == Log([s EXCEPT !.timer = "stopped"],
                               Call("caller.stop"))
                      b == teardown(a, env)
                  IN  IF b.ctrl_socket = "open" /\ ~env.sock_ok
                      THEN Raise(Log(b, Failed("ctrl_socket.close",
                                               <<"ZMQError">>)), "ZMQError")
                      ELSE Log([b EXCEPT !.ctrl_socket = "closed"],
                               Call("ctrl_socket.close"))
             ELSE s
    IN  IF Raised(t) THEN t ELSE Log(t, Call("sys_hdl.stop"))

\* ------------------------------------------- BaseController.send_response
\* a ZMQError of stream.send is caught and logged: the event is recorded
\* with good = FALSE and nothing reaches the peer
\* mutant: the cast flag is not honoured
send_response_ignoring_cast(s, cid, msg, resp, cast, env) ==
    IF cid = None THEN s
    ELSE Log(s, Ev("send", cid, msg.seq, resp, env.send_ok, <<>>))

\* mutant: the test `cid is None` is missing
send_response_to_none(s, cid, msg, resp, cast, env) ==
    IF cast THEN s
    ELSE Log(s, Ev("send", cid, msg.seq, resp, env.send_ok, <<>>))

\* mutant: the ZMQError of stream.send is not caught
send_response_uncaught(s, cid, msg, resp, cast, env) ==
    IF cast THEN s
    ELSE IF cid = None THEN s
    ELSE LET t == Log(s, Ev("send", cid, msg.seq, resp, env.send_ok, <<>>))
         IN  IF env.send_ok THEN t ELSE Raise(t, "ZMQError")

send_response(s, cid, msg, resp, cast, env) ==
    IF cast THEN s
    ELSE IF cid = None THEN s
    ELSE Log(s, Ev("send", cid, msg.seq, resp, env.send_ok, <<>>))

send_error(s, cid, msg, reason, tb, cast, errno, env) ==
    send_response(s, cid, msg, error(reason, tb, errno), cast, env)

send_ok(s, cid, msg, props, cast, env) ==
    send_response(s, cid, msg, ok(props), cast, env)

\* a method that ends without a return statement, or returns the result of
\* send_error, returns None
Return(s, value) == [s EXCEPT !.ret = value]

\* --------------------------------------------- Controller.execute_command
\* the except clauses of execute_command, in their order
\* mutant: the OSError clause is missing, an OSError reaches the bare except
command_failed_without_oserror(s, cid, msg, cast, exctype, env) ==
    CASE exctype = "MessageError" ->
           send_error(s, cid, msg, <<env.emsg>>, NoTb, cast,
                      "MESSAGE_ERROR", env)
      [] OTHER ->
           send_error(s, cid, msg, <<"command ", "msg", ": ", env.emsg>>,
                      "traceback", cast, "COMMAND_ERROR", env)

command_failed(s, cid, msg, cast, exctype, env) ==
    CASE exctype = "MessageError" ->
           send_error(s, cid, msg, <<env.emsg>>, NoTb, cast,
                      "MESSAGE_ERROR", env)
      [] exctype = "OSError" ->
           send_error(s, cid, msg, <<env.emsg>>, NoTb, cast,
                      "OS_ERROR", env)
      [] OTHER ->
           send_error(s, cid, msg, <<"command ", "msg", ": ", env.emsg>>,
                      "traceback", cast, "COMMAND_ERROR", env)

\* the class of the exception an outcome raises
ExcType(outcome) ==
    CASE outcome \in {"validate_MessageError", "execute_MessageError"} ->
           "MessageError"
      [] outcome \in {"validate_OSError", "execute_OSError"} -> "OSError"
      [] OTHER -> "Exception"

\* the type of the value execute returns
RetType(outcome) ==
    CASE outcome = "ret_none" -> "None"
      [] outcome = "ret_dict" -> "dict"
      [] outcome = "ret_list" -> "list"
      [] OTHER -> "other"

\* cmd.validate(properties); return cmd.execute(self.arbiter, properties)
run_command(s, cid, msg, cast, env) ==
    LET exctype == ExcType(env.outcome)
        raised == <<exctype, env.emsg>>
    IN  IF env.outcome \in {"validate_MessageError", "validate_OSError",
                            "validate_Exception"}
        THEN Return(command_failed(Log(s, Failed("validate", raised)),
                                   cid, msg, cast, exctype, env), "None")
        ELSE LET v == Log(s, Call("validate")) IN
             IF IsRet(env.outcome)
             THEN Return(Log(v, Ev("execute", None, 0, NoResp, TRUE,
                                   <<RetType(env.outcome)>>)),
                         RetType(env.outcome))
             ELSE Return(command_failed(Log(v, Failed("execute", raised)),
                                        cid, msg, cast, exctype, env), "None")

\* cmd_name.lower() raises AttributeError when cmd_name is None or a
\* number; only KeyError is caught
\* mutant: the error of an unknown command is sent without its errno
execute_command_default_errno(s, cmd_name, cid, msg, cast, env) ==
    IF cmd_name \notin CmdStrings
    THEN Raise(s, "AttributeError")
    ELSE IF lower(cmd_name) \notin commands
    THEN Return(send_error(s, cid, msg, <<"unknown command: ", cmd_name>>,
                           NoTb, cast, "NOT_SPECIFIED", env), "None")
    ELSE run_command(s, cid, msg, cast, env)

execute_command(s, cmd_name, cid, msg, cast, env) ==
    IF cmd_name \notin CmdStrings
    THEN Raise(s, "AttributeError")
    ELSE IF lower(cmd_name) \notin commands
    THEN Return(send_error(s, cid, msg, <<"unknown command: ", cmd_name>>,
                           NoTb, cast, "UNKNOWN_COMMAND", env), "None")
    ELSE run_command(s, cid, msg, cast, env)

\* ------------------------------------------------ BaseController.dispatch
\* if cmd_name.lower() == "quit": flush the stream when there is a peer,
\* then stop the arbiter; a failing flush raises out of dispatch
quit_handling(s, cmd_name, cid, env) ==
    IF lower(cmd_name) = "quit"
    THEN LET f == IF cid # None
                  THEN IF s.stream = "open" /\ env.flush_ok
                       THEN Log(s, Call("flush"))
                       ELSE Raise(Log(s, Failed("flush", <<"ZMQError">>)),
                                  "ZMQError")
                  ELSE s
         IN  IF Raised(f) THEN f ELSE Log(f, Call("arbiter.stop"))
    ELSE s

\* lines 116-134: the response for the value execute_command returned
\* mutant: the quit handling runs before the ok response is sent
respond_stop_first(s, resp, cmd_name, cid, msg, cast, env) ==
    LET r1 == IF resp = "None" THEN "ok()" ELSE resp IN
    IF r1 \notin {"ok()", "dict", "list"}
    THEN send_error(s, cid, msg, <<"server error">>, NoTb, cast,
                    "BAD_MSG_DATA_ERROR", env)
    ELSE LET r2 == IF r1 = "list" THEN "results" ELSE r1
             q == quit_handling(s, cmd_name, cid, env)
         IN  IF Raised(q) THEN q ELSE send_ok(q, cid, msg, r2, cast, env)

\* mutant: a list result is not wrapped under "results"
respond_unwrapped_list(s, resp, cmd_name, cid, msg, cast, env) ==
    LET r1 == IF resp = "None" THEN "ok()" ELSE resp IN
    IF r1 \notin {"ok()", "dict", "list"}
    THEN send_error(s, cid, msg, <<"server error">>, NoTb, cast,
                    "BAD_MSG_DATA_ERROR", env)
    ELSE LET o == send_ok(s, cid, msg, r1, cast, env)
         IN  quit_handling(o, cmd_name, cid, env)

respond(s, resp, cmd_name, cid, msg, cast, env) ==
    LET r1 == IF resp = "None" THEN "ok()" ELSE resp IN
    IF r1 \notin {"ok()", "dict", "list"}
    THEN send_error(s, cid, msg, <<"server error">>, NoTb, cast,
                    "BAD_MSG_DATA_ERROR", env)
    ELSE LET r2 == IF r1 = "list" THEN "results" ELSE r1
             o == send_ok(s, cid, msg, r2, cast, env)
         IN  quit_handling(o, cmd_name, cid, env)

\* mutant: the error of an unparseable body is sent without its errno
dispatch_json_default_errno(s, job, env) ==
    LET cid == job.cid
        msg == job.msg
        d == [s EXCEPT !.cur = Append(@, job)]
    IN  IF msg.body \in {"invalid", "empty"}
        THEN send_error(d, cid, msg, <<"json invalid">>, NoTb, FALSE,
                        "NOT_SPECIFIED", env)
        ELSE IF msg.body # "map"
        THEN Raise(d, "AttributeError")
        ELSE LET cmd_name == msg.command
                 cast == (msg.msg_type = "cast")
                 r == execute_command(d, cmd_name, cid, msg, cast, env)
             IN  IF Raised(r) THEN r
                 ELSE respond(r, r.ret, cmd_name, cid, msg, cast, env)

dispatch(s, job, env) ==
    LET cid == job.cid
        msg == job.msg
        d == [s EXCEPT !.cur = Append(@, job)]
    IN  IF msg.body \in {"invalid", "empty"}
        THEN send_error(d, cid, msg, <<"json invalid">>, NoTb, FALSE,
                        "INVALID_JSON", env)
        ELSE IF msg.body # "map"
        THEN Raise(d, "AttributeError")
        ELSE LET cmd_name == msg.command
                 cast == (msg.msg_type = "cast")
                 r == execute_command(d, cmd_name, cid, msg, cast, env)
             IN  IF Raised(r) THEN r
                 ELSE respond(r, r.ret, cmd_name, cid, msg, cast, env)

\* -------------------------------------------------- wakeup and the queue
\* mutant: the test is inverted, `if job is None: self.dispatch(job)`; a
\* popped job is not dispatched and unpacking None raises TypeError
BaseController_wakeup_inverted(s, env) ==
    IF s.jobs = <<>>
    THEN Raise(s, "TypeError")
    ELSE [s EXCEPT !.jobs = Tail(@)]

\* mutant: the job is read from the queue without being removed
BaseController_wakeup_peek(s, env) ==
    IF s.jobs = <<>>
    THEN s
    ELSE dispatch(s, Head(s.jobs), env)

BaseController_wakeup(s, env) ==
    IF s.jobs = <<>>
    THEN s
    ELSE dispatch([s EXCEPT !.jobs = Tail(@)], Head(s.jobs), env)

Controller_wakeup(s, env) ==
    LET r == BaseController_wakeup(s, env) IN
    IF Raised(r) THEN r ELSE Log(r, Call("manage_watchers"))

\* mutant: the two lines are swapped, the wake-up runs before the put
add_job_wake_first(s, cid, msg, env) ==
    LET r == Controller_wakeup(s, env) IN
    IF Raised(r) THEN r
    ELSE [r EXCEPT !.jobs = Append(@, [cid |-> cid, msg |-> msg])]

\* mutant: the job is put at the head of the queue and left to the timer
add_job_lifo(s, cid, msg, env) ==
    [s EXCEPT !.jobs = <<[cid |-> cid, msg |-> msg]>> \o @]

add_job(s, cid, msg, env) ==
    Controller_wakeup([s EXCEPT !.jobs = Append(@, [cid |-> cid, msg |-> msg])],
                      env)

\* mutant: the body is tested for emptiness without being stripped
handle_message_unstripped(s, raw_msg, env) ==
    LET cid == raw_msg.cid
        msg == raw_msg.msg
    IN  IF IsEmpty(msg)
        THEN send_response(s, cid, msg, EmptyCommandText, FALSE, env)
        ELSE add_job(s, cid, msg, env)

handle_message(s, raw_msg, env) ==
    LET cid == raw_msg.cid
        msg == strip(raw_msg.msg)
    IN  IF IsEmpty(msg)
        THEN send_response(s, cid, msg, EmptyCommandText, FALSE, env)
        ELSE add_job(s, cid, msg, env)

\* ============================================================ the machine
\* started, timer (self.caller), stream, ctrl_socket, jobs: the controller.
\* trace, cur, exc: what the last callback did, the jobs it dispatched and
\* the exception that escaped it.  lastop: the last callback.
\* tracking, nseq, sent: when tracking, frames are numbered and sent is the
\* sequence of <<identity, frame number>> of the responses handed to the peer
\* over the whole behaviour; done is the sequence of the frame numbers of
\* the jobs dispatched over the whole behaviour.
\* frame: the frame the last callback received, when it was handle_message.
\* twin: what the last callback would have done, from the same state and
\* in the same environment, had every message been sent in the other mode
\* (cast instead of call, call instead of cast).
VARIABLES started, timer, stream, ctrl_socket, jobs,
          trace, cur, exc, lastop, tracking, nseq, sent, done, frame, twin

vars == <<started, timer, stream, ctrl_socket, jobs,
          trace, cur, exc, lastop, tracking, nseq, sent, done, frame, twin>>

\* the state a callback starts from: its own trace is empty
Enter ==
    [started |-> started, timer |-> timer, stream |-> stream,
     ctrl_socket |-> ctrl_socket, jobs |-> jobs,
     trace |-> <<>>, cur |-> <<>>, exc |-> "none", ret |-> "None"]

\* the responses of a trace that reached the peer, for numbered frames
RECURSIVE Delivered(_)
Delivered(tr) ==
    IF tr = <<>> THEN <<>>
    ELSE LET e == Head(tr) IN
         IF e.op = "send" /\ e.good /\ e.seq > 0
         THEN <<<<e.cid, e.seq>>>> \o Delivered(Tail(tr))
         ELSE Delivered(Tail(tr))

\* the frame numbers of the jobs a callback dispatched
RECURSIVE Numbers(_)
Numbers(js) ==
    IF js = <<>> THEN <<>>
    ELSE IF Head(js).msg.seq > 0
    THEN <<Head(js).msg.seq>> \o Numbers(Tail(js))
    ELSE Numbers(Tail(js))

\* the same message in the other mode
OtherMode(msg) ==
    IF msg.body # "map" THEN msg
    ELSE [msg EXCEPT !.msg_type = IF @ = "cast" THEN Absent ELSE "cast"]

OtherModeJobs(js) ==
    [i \in DOMAIN js |-> [js[i] EXCEPT !.msg = OtherMode(@)]]

\* what a run did apart from transmitting responses: its calls on the
\* commands, the arbiter and the stream, and the exception it ended with
Effects(r) ==
    [calls |-> SelectSeq(r.trace, LAMBDA e : e.op # "send"),
     exc |-> r.exc]

NoTwin == [calls |-> <<>>, exc |-> "none"]

NoFrame == [cid |-> None,
            msg |-> [body |-> "empty", command |-> Absent,
                     msg_type |-> Absent, padded |-> FALSE, seq |-> 0]]

Leave(r, op) ==
    /\ started' = r.started
    /\ timer' = r.timer
    /\ stream' = r.stream
    /\ ctrl_socket' = r.ctrl_socket
    /\ jobs' = r.jobs
    /\ trace' = r.trace
    /\ cur' = r.cur
    /\ exc' = r.exc
    /\ lastop' = op
    /\ sent' = sent \o Delivered(r.trace)
    /\ done' = done \o Numbers(r.cur)
    /\ UNCHANGED tracking

\* BaseController.__init__
InitController ==
    /\ started = FALSE
    /\ timer = "none"
    /\ stream = "none"
    /\ ctrl_socket = "none"
    /\ jobs = <<>>
    /\ trace = <<>>
    /\ cur = <<>>
    /\ exc = "none"
    /\ lastop = "init"
    /\ nseq = 0
    /\ sent = <<>>
    /\ done = <<>>
    /\ frame = NoFrame
    /\ twin = NoTwin

Init == InitController /\ tracking = FALSE

InitOrder == InitController /\ tracking = TRUE

\* the frames the transport delivers; when frames are followed across
\* callbacks, the ones that differ in the responses they cause
TrackedMsgs ==
    {m \in RawMsgs :
        /\ ~m.padded
        /\ m.body \in {"invalid", "nonmap", "map"}
        /\ m.command \in {Absent, "list", "bogus"}
        /\ m.msg_type \in {Absent, "cast"}}

Frames == IF tracking THEN TrackedMsgs ELSE RawMsgs

\* the identities of the frames: a callback handles one frame and treats
\* every identity alike, so two identities are needed only where the
\* responses of several frames are compared
FrameCids == IF tracking THEN CidOpt ELSE {"c1", None}

\* the choices of the environment a dispatch of (cid, msg) can observe
Known(msg) ==
    msg.body = "map" /\ msg.command \in CmdStrings
                     /\ lower(msg.command) \in commands

\* the outcome is observed when the command is registered, the message of
\* the error when it raises, the fate of stream.send when there is an
\* identity, the fate of stream.flush when a quit has an identity
EnvsFor(cid, msg) ==
    LET outcomes == IF ~Known(msg) THEN {"ret_none"}
                    ELSE IF tracking THEN {"ret_none", "execute_OSError"}
                    ELSE Outcomes
        emsgs == IF tracking THEN {"e1"} ELSE ErrMsgs
        sends == IF cid = None THEN {TRUE} ELSE BOOLEAN
        flushes == IF Known(msg) /\ lower(msg.command) = "quit" /\ cid # None
                   THEN BOOLEAN ELSE {TRUE}
    IN  [outcome : {o \in outcomes : IsRet(o)}, emsg : {"e1"},
         send_ok : sends, flush_ok : flushes, close_ok : {TRUE}]
        \cup
        [outcome : {o \in outcomes : ~IsRet(o)}, emsg : emsgs,
         send_ok : sends, flush_ok : flushes, close_ok : {TRUE}]

\* the choices of the environment stop() can observe: whether
\* stream.flush(), stream.close() and ctrl_socket.close() succeed
StopEnvs == [flush_ok : BOOLEAN, close_ok : BOOLEAN, sock_ok : BOOLEAN]

Start ==
    /\ ~started
    /\ \E bind_ok \in BOOLEAN : Leave(start(Enter, bind_ok), "start")
    /\ frame' = NoFrame
    /\ twin' = NoTwin
    /\ UNCHANGED nseq

Stop ==
    \E env \in StopEnvs :
        /\ Leave(stop(Enter, env), "stop")
        /\ frame' = NoFrame
        /\ twin' = NoTwin
        /\ UNCHANGED nseq

\* the stream's on_recv callback: one frame (identity, body)
HandleMessage ==
    /\ stream = "open"
    /\ ctrl_socket = "open"
    /\ tracking => nseq < MaxJobs
    /\ \E cid \in FrameCids, m \in Frames :
        LET msg == [body |-> m.body, command |-> m.command,
                    msg_type |-> m.msg_type, padded |-> m.padded,
                    seq |-> IF tracking THEN nseq + 1 ELSE 0]
        IN  \E env \in EnvsFor(cid, msg) :
              /\ Leave(handle_message(Enter, [cid |-> cid, msg |-> msg], env),
                       IF IsEmpty(strip(msg)) THEN "empty_message"
                       ELSE "handle_message")
              /\ frame' = [cid |-> cid, msg |-> msg]
              /\ twin' = Effects(handle_message(
                             [Enter EXCEPT !.jobs = OtherModeJobs(@)],
                             [cid |-> cid, msg |-> OtherMode(msg)], env))
              /\ nseq' = IF tracking THEN nseq + 1 ELSE nseq

\* the PeriodicCallback of start()
Tick ==
    /\ timer = "running"
    /\ \E env \in IF jobs = <<>> THEN {NoEnv}
                  ELSE EnvsFor(Head(jobs).cid, Head(jobs).msg) :
        /\ Leave(Controller_wakeup(Enter, env), "tick")
        /\ frame' = NoFrame
        /\ twin' = Effects(Controller_wakeup(
                       [Enter EXCEPT !.jobs = OtherModeJobs(@)], env))
        /\ UNCHANGED nseq

Next == Start \/ Stop \/ HandleMessage \/ Tick

Spec == Init /\ [][Next]_vars

SpecOrder == InitOrder /\ [][Next]_vars

\* ============================================================= properties
\* the callback that just ran dispatched a job
Dispatched == lastop \in {"handle_message", "tick"} /\ cur # <<>>

Job == cur[1]

IsMap(job) == job.msg.body = "map"

IsCast(job) == IsMap(job) /\ job.msg.msg_type = "cast"

IsQuit(job) ==
    IsMap(job) /\ job.msg.command \in CmdStrings
               /\ lower(job.msg.command) = "quit"

Sends == {i \in DOMAIN trace : trace[i].op = "send"}

Calls(op) == {i \in DOMAIN trace : trace[i].op = op}

\* validate or execute raised
CommandRaised ==
    \E i \in Calls("validate") \cup Calls("execute") : ~trace[i].good

\* execute returned a structured result
CommandSucceeded ==
    \E i \in Calls("execute") :
        trace[i].good /\ trace[i].info \in {<<"None">>, <<"dict">>, <<"list">>}

\* the transport failed under stream.flush()
FlushFailed == \E i \in Calls("flush") : ~trace[i].good

\* C1: one dispatch of a call with a present identity hands exactly one
\* response to the transport, for that identity, on each path the claim
\* names: the command succeeds, is unknown, raises in validate or execute,
\* or returns a non-structured result
C1_ExactlyOneResponse ==
    (Dispatched /\ Job.cid # None /\ ~IsCast(Job)
       /\ IsMap(Job) /\ Job.msg.command \in CmdStrings)
        => /\ Cardinality(Sends) = 1
           /\ \A i \in Sends : trace[i].cid = Job.cid

\* C2: no exception escapes handle_message or wakeup, whatever the payload
\* of the frame and whatever the command raises
C2_NoFailureEscapes ==
    (lastop \in {"handle_message", "empty_message", "tick"} /\ ~FlushFailed)
        => exc = "none"

\* C3: the dispatch of a message that declares msg_type "cast" hands no
\* response to the transport
C3_CastNeverAnswered ==
    (Dispatched /\ IsCast(Job)) => Sends = {}

C3_Witness ==
    /\ Dispatched /\ IsCast(Job) /\ Job.cid # None
    /\ CommandRaised
    /\ lastop = "handle_message"

\* C4: a quit whose validate or execute raised, or for which an error
\* response was produced, does not invoke arbiter.stop()
C4_StopOnlyAfterSuccess ==
    (Dispatched /\ IsQuit(Job)
       /\ (CommandRaised \/ \E i \in Sends : trace[i].resp.status = "error"))
        => Calls("arbiter.stop") = {}

\* C5: for a call-mode quit with an identity that executed successfully,
\* every arbiter.stop() comes after the ok response was handed to the
\* transport and the stream was flushed
C5_AckBeforeStop ==
    (Dispatched /\ IsQuit(Job) /\ ~IsCast(Job) /\ Job.cid # None
       /\ CommandSucceeded)
        => \A i \in Calls("arbiter.stop") :
             \E j \in Sends, k \in Calls("flush") :
                /\ j < k /\ k < i
                /\ trace[j].cid = Job.cid
                /\ trace[j].resp.status = "ok"
                /\ trace[k].good

C5_Witness ==
    /\ Dispatched /\ IsQuit(Job) /\ ~IsCast(Job) /\ Job.cid # None
    /\ CommandSucceeded
    /\ Calls("arbiter.stop") # {}

\* C6: a mapping without a command field, in call mode with an identity,
\* is answered with an error response whose errno is UNKNOWN_COMMAND
C6_MissingCommandAnswered ==
    (Dispatched /\ IsMap(Job) /\ Job.msg.command = Absent
       /\ ~IsCast(Job) /\ Job.cid # None)
        => \E i \in Sends :
             /\ trace[i].cid = Job.cid
             /\ trace[i].resp.status = "error"
             /\ trace[i].resp.errno = "UNKNOWN_COMMAND"

\* C7: a call with an identity whose command name, lower-cased, is not in
\* the registry is answered with an error response of errno
\* UNKNOWN_COMMAND, and neither validate nor execute is called
UnknownCall ==
    /\ Dispatched /\ IsMap(Job) /\ ~IsCast(Job) /\ Job.cid # None
    /\ Job.msg.command \in CmdStrings
    /\ lower(Job.msg.command) \notin commands

C7_UnknownCommand ==
    UnknownCall
        => /\ \E i \in Sends :
                /\ trace[i].cid = Job.cid
                /\ trace[i].resp.status = "error"
                /\ trace[i].resp.errno = "UNKNOWN_COMMAND"
           /\ Calls("validate") = {}
           /\ Calls("execute") = {}

C7_Witness == UnknownCall /\ Sends # {}

\* C8: the error response that follows a failure of validate or execute
\* has errno MESSAGE_ERROR and the error's message as reason for a
\* MessageError, OS_ERROR and the error's message for an OSError,
\* COMMAND_ERROR otherwise; only COMMAND_ERROR carries a traceback
FailedCalls ==
    {i \in Calls("validate") \cup Calls("execute") : ~trace[i].good}

C8_ErrnoByClass ==
    /\ \A i \in FailedCalls :
         (Dispatched /\ ~IsCast(Job) /\ Job.cid # None)
            => /\ i + 1 \in Sends
               /\ LET r == trace[i + 1].resp
                      cls == trace[i].info[1]
                      m == trace[i].info[2]
                  IN  /\ r.status = "error"
                      /\ cls = "MessageError"
                            => r.errno = "MESSAGE_ERROR" /\ r.reason = <<m>>
                      /\ cls = "OSError"
                            => r.errno = "OS_ERROR" /\ r.reason = <<m>>
                      /\ cls \notin {"MessageError", "OSError"}
                            => r.errno = "COMMAND_ERROR"
    /\ \A i \in Sends :
         trace[i].resp.tb # NoTb <=> trace[i].resp.errno = "COMMAND_ERROR"

C8_Witness ==
    /\ Dispatched /\ ~IsCast(Job) /\ Job.cid # None
    /\ \E i \in FailedCalls : trace[i].info[1] = "OSError"

\* C9: the responses handed to one identity are in the order in which
\* their frames were enqueued
C9_ResponsesInArrivalOrder ==
    \A i, j \in DOMAIN sent :
        (i < j /\ sent[i][1] = sent[j][1]) => sent[i][2] <= sent[j][2]

C9_Witness ==
    \E i, j \in DOMAIN sent :
        i < j /\ sent[i][1] = sent[j][1] /\ sent[i][2] < sent[j][2]

\* C10: every wake-up calls arbiter.manage_watchers() exactly once, as its
\* last step, whatever the dispatched job did
C10_ManageEveryWakeup ==
    (lastop \in {"handle_message", "tick"} /\ ~FlushFailed)
        => /\ Cardinality(Calls("manage_watchers")) = 1
           /\ trace[Len(trace)].op = "manage_watchers"

\* the last callback received a frame whose body is empty or whitespace
EmptyFrame ==
    lastop \in {"handle_message", "empty_message"} /\ frame.msg.body = "empty"

\* C11: a frame whose body is empty after stripping is not enqueued and not
\* dispatched: the queue is unchanged, no command is called, and the only
\* thing done is the plain-text reply "error: empty command" to the frame's
\* identity when there is one
C11_EmptyFrameRejected ==
    [][EmptyFrame'
         => /\ jobs' = jobs
            /\ cur' = <<>>
            /\ exc' = "none"
            /\ IF frame'.cid = None
               THEN trace' = <<>>
               ELSE /\ Len(trace') = 1
                    /\ trace'[1].op = "send"
                    /\ trace'[1].cid = frame'.cid
                    /\ trace'[1].resp = EmptyCommandText]_vars

C11_Witness ==
    /\ EmptyFrame /\ frame.msg.padded /\ frame.cid # None
    /\ Sends # {}
    /\ cur = <<>>

\* C12: the dispatch of a body that does not parse sends one error response
\* with errno INVALID_JSON to the job's identity and ends there: no
\* validate, no execute, no flush, no arbiter.stop(), no exception
C12_InvalidJson ==
    (Dispatched /\ Job.msg.body = "invalid")
        => /\ exc = "none"
           /\ Calls("validate") = {} /\ Calls("execute") = {}
           /\ Calls("flush") = {} /\ Calls("arbiter.stop") = {}
           /\ IF Job.cid = None
              THEN Sends = {}
              ELSE /\ Sends = {1}
                   /\ trace[1].cid = Job.cid
                   /\ trace[1].resp.status = "error"
                   /\ trace[1].resp.errno = "INVALID_JSON"

C12_Witness ==
    /\ Dispatched /\ Job.msg.body = "invalid" /\ Job.cid # None
    /\ Sends # {}

\* C13: after an execute that returned, the one response of a call with an
\* identity is fixed by the type of the result: None gives the minimal ok
\* envelope, a mapping the ok envelope merged with it, a list the ok
\* envelope with the list under "results", anything else an error with
\* errno BAD_MSG_DATA_ERROR and no ok envelope
Returned == {i \in Calls("execute") : trace[i].good}

C13_ResponseByResultType ==
    (Dispatched /\ ~IsCast(Job) /\ Job.cid # None)
        => \A i \in Returned :
             /\ Sends = {i + 1}
             /\ LET r == trace[i + 1].resp
                    type == trace[i].info[1]
                IN  /\ type = "None"
                         => r.status = "ok" /\ r.payload = "ok()"
                    /\ type = "dict"
                         => r.status = "ok" /\ r.payload = "dict"
                    /\ type = "list"
                         => r.status = "ok" /\ r.payload = "results"
                    /\ type = "other"
                         => r.status = "error"
                            /\ r.errno = "BAD_MSG_DATA_ERROR"

C13_Witness ==
    /\ Dispatched /\ ~IsCast(Job) /\ Job.cid # None
    /\ \E i \in Returned : trace[i].info = <<"list">>
    /\ \E j \in Sends : trace[j].resp.payload = "results"

\* C14: every call of stop() calls sys_hdl.stop(), whichever step of the
\* transport teardown fails
C14_StopReachesSysHandler ==
    lastop = "stop" => Calls("sys_hdl.stop") # {}

\* C15: stop() on a controller whose start() never completed stops no
\* timer, flushes and closes nothing and changes no field of the
\* controller; it only calls sys_hdl.stop(), however often it is called
C15_StopNeverStarted ==
    [][(lastop' = "stop" /\ ~started)
         => /\ UNCHANGED <<started, timer, stream, ctrl_socket, jobs>>
            /\ trace' = <<Call("sys_hdl.stop")>>
            /\ exc' = "none"]_vars

C15_Witness ==
    /\ lastop = "stop" /\ ~started
    /\ Calls("sys_hdl.stop") # {}

\* C16: every job the receive callback creates is dispatched exactly once:
\* after each callback the jobs dispatched so far are the frames received
\* so far, each once, none left out (a job is dispatched by the wake-up of
\* its own arrival, so it does not wait for a timer tick)
C16_ConsumedExactlyOnce ==
    tracking => done = [i \in 1..nseq |-> i]

C16_Witness ==
    /\ tracking /\ nseq >= 2 /\ Len(done) >= 2
    /\ lastop = "tick"

\* C17: a message dispatched as cast and the same message dispatched as
\* call, from the same state and with the same behaviour of the command
\* and the transport, make the same calls of validate, execute, flush,
\* arbiter.stop() and manage_watchers() and end with the same exception;
\* only the responses transmitted differ
C17_CastCallSameEffects ==
    (Dispatched /\ IsMap(Job))
        => Effects([trace |-> trace, exc |-> exc]) = twin

C17_Witness ==
    /\ Dispatched /\ IsQuit(Job) /\ ~IsCast(Job) /\ Job.cid # None
    /\ Sends # {}
    /\ Calls("arbiter.stop") # {}
    /\ \E i \in DOMAIN twin.calls : twin.calls[i].op = "arbiter.stop"

\* C18: a wake-up removes the head of the queue and nothing else, and
\* dispatches exactly that job before it returns; on an empty queue it
\* returns having removed and dispatched nothing.  The wake-up of a timer
\* tick starts from the queue as it is, the wake-up of an arrival from the
\* queue with the arriving job appended.
WakeupOn(q) ==
    /\ jobs' = (IF q = <<>> THEN <<>> ELSE Tail(q))
    /\ cur' = (IF q = <<>> THEN <<>> ELSE <<Head(q)>>)

C18_OneJobPerWakeup ==
    [][/\ lastop' = "tick" => WakeupOn(jobs)
       /\ (lastop' \in {"handle_message", "empty_message"}
             /\ frame'.msg.body # "empty")
            => WakeupOn(Append(jobs, [cid |-> frame'.cid,
                                      msg |-> strip(frame'.msg)]))]_vars

C18_Witness ==
    /\ lastop = "handle_message" /\ frame.msg.body # "empty"
    /\ Len(cur) = 1 /\ jobs = <<>>
    /\ Calls("execute") # {}

\* C19: for a frame without identity nothing is handed to the transport,
\* whatever the frame is (empty, unparseable, failing, succeeding); a
\* registered command is still validated and executed, and a quit that
\* succeeded still calls arbiter.stop(), without a flush
NoIdentity ==
    lastop \in {"handle_message", "empty_message"} /\ frame.cid = None

C19_NoIdentityNoSend ==
    NoIdentity
        => /\ Sends = {}
           /\ Known(frame.msg)
                => /\ Calls("validate") # {}
                   /\ (\A i \in Calls("validate") : trace[i].good)
                        => Calls("execute") # {}
           /\ (Known(frame.msg) /\ lower(frame.msg.command) = "quit"
                 /\ CommandSucceeded)
                => Calls("arbiter.stop") # {} /\ Calls("flush") = {}

C19_Witness ==
    /\ NoIdentity /\ Dispatched /\ IsQuit(Job) /\ ~IsCast(Job)
    /\ CommandSucceeded
    /\ Calls("arbiter.stop") # {}

\* C20: between callbacks the queue is empty, also after a dispatch that
\* raised, and the job an arrival dispatched is the job it enqueued
C20_QueueEmptyBetweenCallbacks ==
    /\ jobs = <<>>
    /\ (lastop \in {"handle_message", "empty_message"}
          /\ frame.msg.body # "empty")
         => cur = <<[cid |-> frame.cid, msg |-> strip(frame.msg)]>>

C20_Witness ==
    /\ lastop = "handle_message" /\ exc = "AttributeError"
    /\ Len(cur) = 1 /\ jobs = <<>>

====
